---- MODULE Spec2Model ----
(***************************************************************************)
(* A model of try-rs: the interactive selection loop (App, run_app) and   *)
(* the name resolution and directory creation done by main, together with *)
(* the helpers of utils.rs and the date-prefix option of config.rs.       *)
(*                                                                         *)
(* Strings are sequences of one-character strings, so that starts_with,   *)
(* split_once, push, pop, format! and the fuzzy subsequence match are     *)
(* computed character by character.                                       *)
(***************************************************************************)
EXTENDS Integers, Sequences, FiniteSets, TLC

(* ------------------------------------------------------------------------ *)
(* Bounds of the model                                                      *)
(* ------------------------------------------------------------------------ *)

\* longest query the user types
MaxQueryLen == 2
\* most directories present under the base directory at start
MaxEntries == 2
\* most changes another process makes to the base directory during a run
MaxExternal == 1

(* ------------------------------------------------------------------------ *)
(* Strings                                                                  *)
(* ------------------------------------------------------------------------ *)

\* what Local::now().format("%Y-%m-%d") gives on the day of the run
Today == <<"2", "0", "2", "4", "-", "0", "6", "-", "1", "5">>
\* the date prefix of a folder made on an earlier day
OldDate == <<"2", "0", "2", "0", "-", "0", "2", "-", "0", "2">>

Digits == {"0", "1", "2", "3", "4", "5", "6", "7", "8", "9"}

\* the characters a key press can add to the query
QueryChars == {"a", "b"}

\* the names other than typed ones that occur under the base directory
DirNames ==
    { <<"a", "b">>,
      OldDate \o <<" ", "a", "b">>,
      Today \o <<" ", "b", "a", "b">> }

\* modification times: an earlier one and the latest, so that entries can
\* tie and can differ
Times == {1, 2}
Latest == CHOOSE t \in Times : \A u \in Times : u <= t

\* names of plain files that may lie under the base directory
FileNames == { <<"a">> }

None == [tag |-> "None"]
Some(x) == [tag |-> "Some", val |-> x]

\* str::starts_with
starts_with(s, p) ==
    /\ Len(p) <= Len(s)
    /\ SubSeq(s, 1, Len(p)) = p

\* the index of the first c in s, 0 when there is none
RECURSIVE find_from(_, _, _)
find_from(s, c, i) ==
    IF i > Len(s) THEN 0
    ELSE IF s[i] = c THEN i
    ELSE find_from(s, c, i + 1)

\* str::split_once: None, or the text before and after the first c
split_once(s, c) ==
    LET i == find_from(s, c, 1)
    IN  IF i = 0 THEN None
        ELSE Some(<<SubSeq(s, 1, i - 1), SubSeq(s, i + 1, Len(s))>>)

(* ------------------------------------------------------------------------ *)
(* utils.rs: the date prefix of a folder name                               *)
(* ------------------------------------------------------------------------ *)

DigitVal(c) ==
    CASE c = "0" -> 0 [] c = "1" -> 1 [] c = "2" -> 2 [] c = "3" -> 3
      [] c = "4" -> 4 [] c = "5" -> 5 [] c = "6" -> 6 [] c = "7" -> 7
      [] c = "8" -> 8 [] c = "9" -> 9

\* how many of the characters of s from position i on are digits, at most w
RECURSIVE digit_run(_, _, _)
digit_run(s, i, w) ==
    IF w = 0 \/ i > Len(s) \/ s[i] \notin Digits THEN 0
    ELSE 1 + digit_run(s, i + 1, w - 1)

RECURSIVE number_value(_, _, _, _)
number_value(s, i, n, acc) ==
    IF n = 0 THEN acc
    ELSE number_value(s, i + 1, n - 1, acc * 10 + DigitVal(s[i]))

IsLeapYear(y) == (y % 4 = 0 /\ y % 100 # 0) \/ y % 400 = 0

DaysInMonth(y, m) ==
    IF m = 2 THEN (IF IsLeapYear(y) THEN 29 ELSE 28)
    ELSE IF m \in {4, 6, 9, 11} THEN 30
    ELSE 31

\* NaiveDate::parse_from_str(lhs, "%Y-%m-%d"): an unsigned year of one to
\* four digits, a month and a day of one or two digits, '-' between them,
\* nothing after the day, and the three numbers a date of the calendar.
\* (A year written with a sign is outside the names of the model.)
parse_date(lhs) ==
    LET yn == digit_run(lhs, 1, 4)
        y  == number_value(lhs, 1, yn, 0)
        mi == yn + 2
        mn == digit_run(lhs, mi, 2)
        m  == number_value(lhs, mi, mn, 0)
        di == mi + mn + 1
        dn == digit_run(lhs, di, 2)
        d  == number_value(lhs, di, dn, 0)
    IN  IF /\ yn >= 1
           /\ Len(lhs) >= yn + 1 /\ lhs[yn + 1] = "-"
           /\ mn >= 1
           /\ Len(lhs) >= mi + mn /\ lhs[mi + mn] = "-"
           /\ dn >= 1
           /\ Len(lhs) = di + dn - 1
           /\ m \in 1..12
           /\ d \in 1..DaysInMonth(y, m)
        THEN Some(<<y, m, d>>)
        ELSE None

\* extract_prefix_date: None, or the date before the first space and the
\* text after it.  An empty text after the space is returned as it is:
\* the code sets no condition on rhs.  Midnight of the date is taken to
\* exist once in the local time zone (and_local_timezone(..).single()).
extract_prefix_date(name) ==
    LET parts == split_once(name, " ")
    IN  IF parts = None THEN None
        ELSE LET date == parse_date(parts.val[1])
             IN  IF date = None THEN None
                 ELSE Some(<<date.val, parts.val[2]>>)

\* generate_prefix_date, and the same expression in main
generate_prefix_date == Today

\* a test that knows the literal name alone
folder_matches_literal(filename, name) == filename = name

\* the test matching_folders makes on one directory name
folder_matches(filename, name) ==
    \/ filename = name
    \/ LET dated == extract_prefix_date(filename)
       IN  dated # None /\ dated.val[2] = name

\* matching_folders(name, path): the directories under path, given as the
\* map `disk` from names to kinds, that match; the order of the result is
\* read_dir's and is left out
matching_folders(name, disk) ==
    {filename \in {n \in DOMAIN disk : disk[n].kind = "dir"} :
        folder_matches(filename, name)}

(* ------------------------------------------------------------------------ *)
(* main.rs: TryEntry, App::new, App::update_search                          *)
(* ------------------------------------------------------------------------ *)

TryEntry(name, modified, score) ==
    [name |-> name, modified |-> modified, score |-> score]

\* that position i of a name starts a word
word_start(name, i) == i = 1 \/ name[i - 1] \in {" ", "-"}

\* The scorer the loop calls, SkimMatcherV2::fuzzy_match of the
\* fuzzy_matcher crate: the crate is not part of the repository, so it is
\* modelled by its interface, a subsequence match with a score.  The score
\* of the best alignment of pattern[j..] in choice[i..] counts 16 for each
\* matched character, 8 more when it follows the previous match
\* directly and 8 more when it starts a word; -1 stands for no alignment.
RECURSIVE best_alignment(_, _, _, _, _)
best_alignment(choice, pattern, i, j, prev) ==
    IF j > Len(pattern) THEN 0
    ELSE IF i > Len(choice) THEN -1
    ELSE LET skip == best_alignment(choice, pattern, i + 1, j, FALSE)
             rest == best_alignment(choice, pattern, i + 1, j + 1, TRUE)
             take == IF choice[i] # pattern[j] \/ rest < 0 THEN -1
                     ELSE 16 + (IF prev THEN 8 ELSE 0)
                             + (IF word_start(choice, i) THEN 8 ELSE 0) + rest
         IN  IF take >= skip THEN take ELSE skip

\* matcher.fuzzy_match(choice, pattern): None when pattern is no
\* subsequence of choice, else the score
fuzzy_match(choice, pattern) ==
    LET score == best_alignment(choice, pattern, 1, 1, FALSE)
    IN  IF score < 0 THEN None ELSE Some(score)

\* a descending sort that is not stable: entries that compare equal come
\* out in the reverse of their order
RECURSIVE sort_by_desc_unstable(_, _)
sort_by_desc_unstable(entries, f) ==
    IF entries = <<>> THEN <<>>
    ELSE LET sorted == sort_by_desc_unstable(SubSeq(entries, 1, Len(entries) - 1), f)
             e      == entries[Len(entries)]
             k      == Cardinality({i \in 1..Len(sorted) : sorted[i][f] > e[f]})
         IN  SubSeq(sorted, 1, k) \o <<e>> \o SubSeq(sorted, k + 1, Len(sorted))

\* slice::sort_by(|a, b| b.f.cmp(&a.f)): descending by field f, and stable:
\* entries that compare equal keep their order
RECURSIVE sort_by_desc(_, _)
sort_by_desc(entries, f) ==
    IF entries = <<>> THEN <<>>
    ELSE LET sorted == sort_by_desc(SubSeq(entries, 1, Len(entries) - 1), f)
             e      == entries[Len(entries)]
             k      == Cardinality({i \in 1..Len(sorted) : sorted[i][f] >= e[f]})
         IN  SubSeq(sorted, 1, k) \o <<e>> \o SubSeq(sorted, k + 1, Len(sorted))

\* a filter that keeps the entries whose name holds the query as it is
\* written, characters next to each other
RECURSIVE filter_map_contiguous(_, _)
filter_map_contiguous(entries, query) ==
    IF entries = <<>> THEN <<>>
    ELSE LET m    == fuzzy_match(entries[1].name, query)
             name == entries[1].name
             tail == filter_map_contiguous(SubSeq(entries, 2, Len(entries)), query)
         IN  IF \A i \in 1..Len(name) : ~starts_with(SubSeq(name, i, Len(name)), query)
             THEN tail
             ELSE <<[entries[1] EXCEPT !.score = m.val]>> \o tail

\* a filter that adds the score of the query to the score an entry has
RECURSIVE filter_map_adding(_, _)
filter_map_adding(entries, query) ==
    IF entries = <<>> THEN <<>>
    ELSE LET m    == fuzzy_match(entries[1].name, query)
             tail == filter_map_adding(SubSeq(entries, 2, Len(entries)), query)
         IN  IF m = None THEN tail
             ELSE <<[entries[1] EXCEPT !.score = @ + m.val]>> \o tail

\* iter().filter_map(..).collect() of update_search: the entries the
\* scorer matches, in their order, each with its score
RECURSIVE filter_map(_, _)
filter_map(entries, query) ==
    IF entries = <<>> THEN <<>>
    ELSE LET m    == fuzzy_match(entries[1].name, query)
             tail == filter_map(SubSeq(entries, 2, Len(entries)), query)
         IN  IF m = None THEN tail
             ELSE <<[entries[1] EXCEPT !.score = m.val]>> \o tail

\* a filter pass that narrows the list shown instead of deriving it again
update_search_incremental(self) ==
    [self EXCEPT
        !.filtered_entries =
            IF self.query = <<>> THEN self.all_entries
            ELSE sort_by_desc(filter_map(self.filtered_entries, self.query), "score"),
        !.selected_index = 0]

\* a filter pass that keeps the cursor where it was
update_search_keep_cursor(self) ==
    [self EXCEPT
        !.filtered_entries =
            IF self.query = <<>> THEN self.all_entries
            ELSE sort_by_desc(filter_map(self.all_entries, self.query), "score")]

\* a filter pass that leaves the list as it is when the query is empty
update_search_empty_query_skipped(self) ==
    [self EXCEPT
        !.filtered_entries =
            IF self.query = <<>> THEN self.filtered_entries
            ELSE sort_by_desc(filter_map(self.all_entries, self.query), "score"),
        !.selected_index = 0]

\* App::update_search
update_search(self) ==
    [self EXCEPT
        !.filtered_entries =
            IF self.query = <<>> THEN self.all_entries
            ELSE sort_by_desc(filter_map(self.all_entries, self.query), "score"),
        !.selected_index = 0]

\* a loader that keeps every child whose metadata can be read, plain files
\* too
RECURSIVE push_entries_any_kind(_, _, _)
push_entries_any_kind(listing, disk, unreadable) ==
    IF listing = <<>> THEN <<>>
    ELSE LET n    == listing[1]
             tail == push_entries_any_kind(SubSeq(listing, 2, Len(listing)),
                                           disk, unreadable)
         IN  IF n \notin unreadable
             THEN <<TryEntry(n, disk[n].modified, 0)>> \o tail
             ELSE tail

\* the entries App::new pushes for a listing: read_dir gives the names in
\* `listing` order, and those whose metadata can be read and say directory
\* are kept
RECURSIVE push_entries(_, _, _)
push_entries(listing, disk, unreadable) ==
    IF listing = <<>> THEN <<>>
    ELSE LET n    == listing[1]
             tail == push_entries(SubSeq(listing, 2, Len(listing)), disk, unreadable)
         IN  IF n \notin unreadable /\ disk[n].kind = "dir"
             THEN <<TryEntry(n, disk[n].modified, 0)>> \o tail
             ELSE tail

\* a loader that ends the session when it has nothing to show
AppNew_quit_when_empty(listing, disk, unreadable) ==
    LET entries == sort_by_desc(push_entries(listing, disk, unreadable), "modified")
    IN  [query            |-> <<>>,
         all_entries      |-> entries,
         filtered_entries |-> entries,
         selected_index   |-> 0,
         should_quit      |-> entries = <<>>,
         final_selection  |-> None]

\* App::new, given what read_dir yields (the empty listing when it fails)
AppNew(listing, disk, unreadable) ==
    LET entries == sort_by_desc(push_entries(listing, disk, unreadable), "modified")
    IN  [query            |-> <<>>,
         all_entries      |-> entries,
         filtered_entries |-> entries,
         selected_index   |-> 0,
         should_quit      |-> FALSE,
         final_selection  |-> None]

(* ------------------------------------------------------------------------ *)
(* State                                                                    *)
(* ------------------------------------------------------------------------ *)

VARIABLES
    base_exists,        \* the base directory (tries_dir) exists
    fs,                 \* its children: name -> [kind, modified, marker]
    apply_date_prefix,  \* the option of the config file, None when not set
    ext,                \* changes made so far by other processes
    raw_mode,           \* terminal: raw mode enabled
    alt_screen,         \* terminal: alternate screen entered
    cursor_hidden,      \* terminal: cursor hidden
    pc,                 \* where main is
    app,                \* the App of the loop
    last_event,         \* what the last loop iteration received
    res,                \* what run_app returned, None before it returns
    new_name,           \* the folder main is about to create
    stdout,             \* the lines printed for the shell
    exit_status,        \* how main ended: "running", "Ok", "Err", "Panic"
    loaded,             \* the entries App::new loaded
    load_env,           \* what App::new met: read_dir's result, the tree,
                        \* the directories whose metadata could not be read
    arg,                \* the argument of a function called on its own
    ret,                \* what that call returned, Pending before it returns
    fs0,                \* fs at start
    base0,              \* base_exists at start
    created             \* the directories this process has created

vars == <<base_exists, fs, apply_date_prefix, ext, raw_mode, alt_screen,
          cursor_hidden, pc, app, last_event, res, new_name, stdout,
          exit_status, loaded, load_env, arg, ret, fs0, base0, created>>

term_vars == <<raw_mode, alt_screen, cursor_hidden>>
disk_vars == <<base_exists, fs, created>>
hist_vars == <<fs0, base0, apply_date_prefix>>
call_vars == <<arg, ret>>

Dirs(disk) == {n \in DOMAIN disk : disk[n].kind = "dir"}

\* a directory as mkdir leaves it: empty, modified now
NewDir == [kind |-> "dir", modified |-> Latest, marker |-> FALSE]

\* disk with the empty directory n added
Mkdir(disk, n) == [m \in DOMAIN disk \cup {n} |-> IF m = n THEN NewDir ELSE disk[m]]

\* disk without n
Remove(disk, n) == [m \in DOMAIN disk \ {n} |-> disk[m]]

\* the orders in which read_dir can yield the names of a set
Listings(names) ==
    {l \in [1..Cardinality(names) -> names] :
        \A i, j \in 1..Cardinality(names) : i # j => l[i] # l[j]}

\* the directory trees a run can start from: directories that hold
\* something (a marker), each with a modification time, and plain files
InitialDisks ==
    UNION {
        UNION {
            { [n \in D \cup F |->
                 IF n \in D
                 THEN [kind |-> "dir", modified |-> t[n], marker |-> TRUE]
                 ELSE [kind |-> "file", modified |-> 1, marker |-> FALSE]] :
              t \in [D -> Times] } :
            F \in SUBSET FileNames } :
        D \in {X \in SUBSET DirNames : Cardinality(X) <= MaxEntries} }

EmptyDisk == [n \in {} |-> NewDir]

\* before App::new has run
NotLoaded == [done |-> FALSE, ok |-> FALSE, disk |-> EmptyDisk, unreadable |-> {}]

\* a call that has not returned
Pending == [tag |-> "Pending"]

Init ==
    /\ base_exists \in BOOLEAN
    /\ fs \in (IF base_exists THEN InitialDisks ELSE {EmptyDisk})
    /\ apply_date_prefix \in {None, Some(TRUE), Some(FALSE)}
    /\ ext = 0
    /\ raw_mode = FALSE
    /\ alt_screen = FALSE
    /\ cursor_hidden = FALSE
    /\ pc = "start"
    /\ app = AppNew(<<>>, EmptyDisk, {})
    /\ last_event = "None"
    /\ loaded = <<>>
    /\ load_env = NotLoaded
    /\ arg = <<>>
    /\ ret = Pending
    /\ res = None
    /\ new_name = None
    /\ stdout = <<>>
    /\ exit_status = "running"
    /\ fs0 = fs
    /\ base0 = base_exists
    /\ created = {}

(* ------------------------------------------------------------------------ *)
(* main: set-up                                                             *)
(* ------------------------------------------------------------------------ *)

\* main returns early through `?`
Fail ==
    /\ pc' = "exit"
    /\ exit_status' = "Err"

\* fs::create_dir_all(&tries_dir)?
MainCreateBase ==
    /\ pc = "start"
    /\ \E ok \in BOOLEAN :
        IF ok \/ base_exists
        THEN /\ base_exists' = TRUE
             /\ pc' = "raw"
             /\ UNCHANGED exit_status
        ELSE /\ Fail
             /\ UNCHANGED base_exists
    /\ UNCHANGED <<fs, created, term_vars, hist_vars, call_vars, ext, loaded, load_env, app, last_event,
                   res, new_name, stdout>>

\* enable_raw_mode()?
MainEnableRawMode ==
    /\ pc = "raw"
    /\ \E ok \in BOOLEAN :
        IF ok
        THEN /\ raw_mode' = TRUE
             /\ pc' = "alt"
             /\ UNCHANGED exit_status
        ELSE /\ Fail
             /\ UNCHANGED raw_mode
    /\ UNCHANGED <<disk_vars, alt_screen, cursor_hidden, hist_vars, call_vars, ext, loaded, load_env, app,
                   last_event, res, new_name, stdout>>

\* execute!(stderr, EnterAlternateScreen)?
MainEnterAlternateScreen ==
    /\ pc = "alt"
    /\ \E ok \in BOOLEAN :
        IF ok
        THEN /\ alt_screen' = TRUE
             /\ pc' = "term"
             /\ UNCHANGED exit_status
        ELSE /\ Fail
             /\ UNCHANGED alt_screen
    /\ UNCHANGED <<disk_vars, raw_mode, cursor_hidden, hist_vars, call_vars, ext, loaded, load_env, app,
                   last_event, res, new_name, stdout>>

\* Terminal::new(backend)?
MainTerminalNew ==
    /\ pc = "term"
    /\ \E ok \in BOOLEAN :
        IF ok
        THEN /\ pc' = "app"
             /\ UNCHANGED exit_status
        ELSE Fail
    /\ UNCHANGED <<disk_vars, term_vars, hist_vars, call_vars, ext, loaded, load_env, app, last_event,
                   res, new_name, stdout>>

\* App::new(tries_dir.clone()): read_dir may fail, it yields the children
\* in any order, and the metadata of a child may be unreadable
MainAppNew ==
    /\ pc = "app"
    /\ \E ok \in BOOLEAN :
       \E listing \in (IF ok /\ base_exists THEN Listings(DOMAIN fs) ELSE {<<>>}) :
       \E unreadable \in (IF ok /\ base_exists
                          THEN {U \in SUBSET DOMAIN fs : Cardinality(U) <= 1}
                          ELSE {{}}) :
            /\ app' = AppNew(listing, fs, unreadable)
            /\ load_env' = [done |-> TRUE, ok |-> ok /\ base_exists,
                            disk |-> fs,
                            unreadable |-> unreadable \cap Dirs(fs)]
    /\ loaded' = app'.all_entries
    /\ pc' = "loop"
    /\ UNCHANGED <<disk_vars, term_vars, hist_vars, call_vars, ext, last_event, res,
                   new_name, stdout, exit_status>>

(* ------------------------------------------------------------------------ *)
(* run_app: one action for each thing an iteration of the loop can meet     *)
(* ------------------------------------------------------------------------ *)

\* the loop is entered: while !app.should_quit
InLoop == pc = "loop" /\ ~app.should_quit

\* terminal.draw(..) went through: ratatui hides the cursor, none being set
Drawn ==
    /\ cursor_hidden' = TRUE
    /\ UNCHANGED <<raw_mode, alt_screen>>

\* a loop that falls back to the typed text when nothing was confirmed
run_app_result_or_query(self) ==
    IF self.final_selection = None /\ self.query # <<>>
    THEN Some(self.query)
    ELSE self.final_selection

\* Ok(app.final_selection): what run_app returns once the loop is left
run_app_result(self) == self.final_selection

\* the end of an iteration with the App now `next`: back to the loop
\* condition, and Ok(app.final_selection) once should_quit is set
Iterate(event, next) ==
    /\ last_event' = event
    /\ app' = next
    /\ IF next.should_quit
       THEN /\ res' = Some([tag |-> "Ok", val |-> run_app_result(next)])
            /\ pc' = "disable_raw"
       ELSE /\ res' = res
            /\ pc' = "loop"
    /\ UNCHANGED <<disk_vars, hist_vars, call_vars, ext, loaded, load_env, new_name, stdout, exit_status>>

\* draw, poll or read returns an error: run_app returns it through `?`
LoopIoError ==
    /\ InLoop
    /\ \E step \in {"draw", "poll", "read"} :
        /\ cursor_hidden' \in (IF step = "draw" THEN {cursor_hidden, TRUE} ELSE {TRUE})
        /\ last_event' = "IoError"
    /\ res' = Some([tag |-> "Err"])
    /\ pc' = "disable_raw"
    /\ UNCHANGED <<disk_vars, raw_mode, alt_screen, hist_vars, call_vars, ext, loaded, load_env, app,
                   new_name, stdout, exit_status>>

\* an iteration without an event that cancels the session
no_dispatch_auto_cancel(self) == [self EXCEPT !.should_quit = TRUE]

\* what an iteration that dispatches nothing makes of the App: the wait
\* timed out, the event was no key, or the key fell to `_ => {}`
no_dispatch(self) == self

\* event::poll(50ms) gives false: no event within the wait
LoopPollTimeout ==
    /\ InLoop
    /\ Drawn
    /\ Iterate("Idle", no_dispatch(app))

\* event::read() gives an event that is not a key (resize, mouse, ...)
LoopNonKeyEvent ==
    /\ InLoop
    /\ Drawn
    /\ Iterate("Idle", no_dispatch(app))

\* KeyCode::Char(c)
KeyChar(c) ==
    /\ InLoop
    /\ Len(app.query) < MaxQueryLen
    /\ Drawn
    /\ Iterate("Char", update_search([app EXCEPT !.query = Append(@, c)]))

\* String::pop: the string without its last character, if it has one
pop(s) == IF s = <<>> THEN s ELSE SubSeq(s, 1, Len(s) - 1)

\* KeyCode::Backspace
KeyBackspace ==
    /\ InLoop
    /\ Drawn
    /\ Iterate("Backspace", update_search([app EXCEPT !.query = pop(@)]))

\* KeyCode::Up
KeyUp ==
    /\ InLoop
    /\ Drawn
    /\ Iterate("Up",
               IF app.selected_index > 0
               THEN [app EXCEPT !.selected_index = @ - 1]
               ELSE app)

\* a bound of Down that is the length of the list and not its last index
no_sub1(n) == n

\* usize::saturating_sub(1)
saturating_sub1(n) == IF n = 0 THEN 0 ELSE n - 1

\* KeyCode::Down
KeyDown ==
    /\ InLoop
    /\ Drawn
    /\ Iterate("Down",
               IF app.selected_index < saturating_sub1(Len(app.filtered_entries))
               THEN [app EXCEPT !.selected_index = @ + 1]
               ELSE app)

\* an Enter that prefers the typed text to the entry under the cursor
confirm_query_first(self) ==
    [self EXCEPT
        !.final_selection =
            IF self.query # <<>> THEN Some(self.query)
            ELSE IF self.filtered_entries # <<>>
            THEN Some(self.filtered_entries[self.selected_index + 1].name)
            ELSE @,
        !.should_quit = TRUE]

\* an Enter that notes the selection and lets the loop go on
confirm_without_quit(self) ==
    [self EXCEPT
        !.final_selection =
            IF self.filtered_entries # <<>>
            THEN Some(self.filtered_entries[self.selected_index + 1].name)
            ELSE IF self.query # <<>> THEN Some(self.query)
            ELSE @]

\* an Enter that takes the entry under the cursor only when nothing is
\* typed or its name is the typed text, and the typed text otherwise
confirm_typed_unless_exact(self) ==
    LET under == self.filtered_entries[self.selected_index + 1].name
    IN  [self EXCEPT
            !.final_selection =
                IF self.filtered_entries # <<>>
                       /\ (self.query = <<>> \/ under = self.query)
                THEN Some(under)
                ELSE IF self.query # <<>> THEN Some(self.query)
                ELSE @,
            !.should_quit = TRUE]

\* what Enter makes of the App; filtered_entries[selected_index] is the
\* Rust index, from 0
confirm(self) ==
    [self EXCEPT
        !.final_selection =
            IF self.filtered_entries # <<>>
            THEN Some(self.filtered_entries[self.selected_index + 1].name)
            ELSE IF self.query # <<>> THEN Some(self.query)
            ELSE @,
        !.should_quit = TRUE]

\* KeyCode::Enter; indexing past the end of filtered_entries panics, which
\* ends the process where it stands
KeyEnter ==
    /\ InLoop
    /\ IF app.filtered_entries # <<>>
          /\ app.selected_index >= Len(app.filtered_entries)
       THEN /\ cursor_hidden' = TRUE
            /\ last_event' = "Enter"
            /\ pc' = "exit"
            /\ exit_status' = "Panic"
            /\ UNCHANGED <<disk_vars, raw_mode, alt_screen, hist_vars, call_vars, ext, loaded, load_env,
                           app, res, new_name, stdout>>
       ELSE /\ Drawn
            /\ Iterate("Enter", confirm(app))

\* an Esc that is handled as Enter is
abort_as_confirm(self) == confirm(self)

\* an Esc that the loop does not act on
abort_ignored(self) == self

\* what Esc makes of the App
abort(self) == [self EXCEPT !.should_quit = TRUE]

\* KeyCode::Esc
KeyEsc ==
    /\ InLoop
    /\ Drawn
    /\ Iterate("Esc", abort(app))

\* any other key: _ => {}
KeyOther ==
    /\ InLoop
    /\ Drawn
    /\ Iterate("Idle", no_dispatch(app))

(* ------------------------------------------------------------------------ *)
(* main: restoring the terminal, resolving the name, creating the folder    *)
(* ------------------------------------------------------------------------ *)

\* disable_raw_mode()?
MainDisableRawMode ==
    /\ pc = "disable_raw"
    /\ \E ok \in BOOLEAN :
        IF ok
        THEN /\ raw_mode' = FALSE
             /\ pc' = "leave_alt"
             /\ UNCHANGED exit_status
        ELSE /\ Fail
             /\ UNCHANGED raw_mode
    /\ UNCHANGED <<disk_vars, alt_screen, cursor_hidden, hist_vars, call_vars, ext, loaded, load_env, app,
                   last_event, res, new_name, stdout>>

\* execute!(terminal.backend_mut(), LeaveAlternateScreen)?
MainLeaveAlternateScreen ==
    /\ pc = "leave_alt"
    /\ \E ok \in BOOLEAN :
        IF ok
        THEN /\ alt_screen' = FALSE
             /\ pc' = "show_cursor"
             /\ UNCHANGED exit_status
        ELSE /\ Fail
             /\ UNCHANGED alt_screen
    /\ UNCHANGED <<disk_vars, raw_mode, cursor_hidden, hist_vars, call_vars, ext, loaded, load_env, app,
                   last_event, res, new_name, stdout>>

\* terminal.show_cursor()?
MainShowCursor ==
    /\ pc = "show_cursor"
    /\ \E ok \in BOOLEAN :
        IF ok
        THEN /\ cursor_hidden' = FALSE
             /\ pc' = "resolve"
             /\ UNCHANGED exit_status
        ELSE /\ Fail
             /\ UNCHANGED cursor_hidden
    /\ UNCHANGED <<disk_vars, raw_mode, alt_screen, hist_vars, call_vars, ext, loaded, load_env, app,
                   last_event, res, new_name, stdout>>

\* println!("cd '{}'", tries_dir.join(name)): the line, by the name joined
cd(name) == [cmd |-> "cd", dir |-> name]

\* format!("{}-{}", date_prefix, selection)
format_dated(date_prefix, selection) == date_prefix \o <<"-">> \o selection

\* a naming that puts the date in front of every selection
NewName_always_dated(selection) == format_dated(generate_prefix_date, selection)

\* the name of the folder to create for a selection that does not exist
NewName(selection) ==
    LET date_prefix == generate_prefix_date
    IN  IF starts_with(selection, date_prefix)
        THEN selection
        ELSE format_dated(date_prefix, selection)

\* an existence test on the dated path instead of the target
exists_dated(disk, name) == format_dated(generate_prefix_date, name) \in DOMAIN disk

\* Path::exists of tries_dir.join(name)
Exists(disk, name) == name \in DOMAIN disk

\* the selection main goes on with: if let Ok(Some(selection)) = res
Selected(r) == r # None /\ r.val.tag = "Ok" /\ r.val.val # None

\* if let Ok(Some(selection)) = res, up to let new_path: an existing target
\* is printed, a missing one gets its new name, and anything else (no
\* selection, or the error of run_app) ends main with Ok(())
MainResolve ==
    /\ pc = "resolve"
    /\ IF Selected(res)
       THEN LET selection == res.val.val.val
            IN  IF Exists(fs, selection)
                THEN /\ stdout' = Append(stdout, cd(selection))
                     /\ pc' = "exit"
                     /\ exit_status' = "Ok"
                     /\ UNCHANGED new_name
                ELSE /\ new_name' = Some(NewName(selection))
                     /\ pc' = "create"
                     /\ UNCHANGED <<stdout, exit_status>>
       ELSE /\ pc' = "exit"
            /\ exit_status' = "Ok"
            /\ UNCHANGED <<stdout, new_name>>
    /\ UNCHANGED <<disk_vars, term_vars, hist_vars, call_vars, ext, loaded, load_env, app, last_event, res>>

\* fs::create_dir_all(path) when it succeeds: a directory already there is
\* left as it is
CreateDirAll(disk, name) ==
    IF name \in Dirs(disk) THEN disk ELSE Mkdir(disk, name)

\* fs::create_dir in its place: a directory already there is a failure
create_dir_ok(disk, name, mkdir_ok) == mkdir_ok /\ name \notin DOMAIN disk

\* whether fs::create_dir_all(path) succeeds, mkdir_ok telling whether the
\* system lets the directory be made: a directory already there is a
\* success whoever made it, a plain file of that name is a failure
create_dir_all_ok(disk, name, mkdir_ok) ==
    \/ name \in Dirs(disk)
    \/ mkdir_ok /\ name \notin DOMAIN disk

\* fs::create_dir_all(&new_path)?; println!(..)
MainCreate ==
    /\ pc = "create"
    /\ \E ok \in BOOLEAN :
        LET name == new_name.val
        IN  IF create_dir_all_ok(fs, name, ok)
            THEN /\ fs' = CreateDirAll(fs, name)
                 /\ created' = IF name \in Dirs(fs) THEN created
                               ELSE created \cup {name}
                 /\ stdout' = Append(stdout, cd(name))
                 /\ pc' = "exit"
                 /\ exit_status' = "Ok"
            ELSE /\ Fail
                 /\ UNCHANGED <<fs, created, stdout>>
    /\ UNCHANGED <<base_exists, term_vars, hist_vars, call_vars, ext, loaded, load_env, app, last_event,
                   res, new_name>>

(* ------------------------------------------------------------------------ *)
(* Other processes                                                          *)
(*                                                                          *)
(* The process reads the base directory in App::new, in the existence test  *)
(* of main and in create_dir_all.  A change made by another process before  *)
(* App::new is a different tree at start; a change made later is first seen *)
(* by the existence test or by create_dir_all, so it is taken right before  *)
(* one of these two.                                                        *)
(* ------------------------------------------------------------------------ *)

\* the name this process is about to create, which another instance of the
\* program resolving the same name creates too
OwnName == IF new_name = None THEN {} ELSE {new_name.val}

\* another process makes a directory under the base directory
ExternalMkdir ==
    /\ pc \in {"resolve", "create"}
    /\ base_exists
    /\ ext < MaxExternal
    /\ \E n \in (DirNames \cup OwnName) \ DOMAIN fs : fs' = Mkdir(fs, n)
    /\ ext' = ext + 1
    /\ UNCHANGED <<base_exists, created, term_vars, hist_vars, call_vars, loaded, load_env, pc, app,
                   last_event, res, new_name, stdout, exit_status>>

\* another process removes a directory under the base directory
ExternalRmdir ==
    /\ pc \in {"resolve", "create"}
    /\ ext < MaxExternal
    /\ \E n \in Dirs(fs) : fs' = Remove(fs, n)
    /\ ext' = ext + 1
    /\ UNCHANGED <<base_exists, created, term_vars, hist_vars, call_vars, loaded, load_env, pc, app,
                   last_event, res, new_name, stdout, exit_status>>

(* ------------------------------------------------------------------------ *)
(* Specification                                                            *)
(* ------------------------------------------------------------------------ *)

Next ==
    \/ MainCreateBase
    \/ MainEnableRawMode
    \/ MainEnterAlternateScreen
    \/ MainTerminalNew
    \/ MainAppNew
    \/ LoopIoError
    \/ LoopPollTimeout
    \/ LoopNonKeyEvent
    \/ \E c \in QueryChars : KeyChar(c)
    \/ KeyBackspace
    \/ KeyUp
    \/ KeyDown
    \/ KeyEnter
    \/ KeyEsc
    \/ KeyOther
    \/ MainDisableRawMode
    \/ MainLeaveAlternateScreen
    \/ MainShowCursor
    \/ MainResolve
    \/ MainCreate
    \/ ExternalMkdir
    \/ ExternalRmdir

Spec == Init /\ [][Next]_vars

(* ------------------------------------------------------------------------ *)
(* extract_prefix_date called on its own                                    *)
(* ------------------------------------------------------------------------ *)

\* what the names given to extract_prefix_date hold before the first space:
\* dates in the format, dates that are no day of the calendar, dates written
\* in other ways and no date
DateTexts ==
    { Today,
      OldDate,
      <<"2", "0", "2", "4", "-", "0", "2", "-", "2", "9">>,
      <<"2", "0", "2", "3", "-", "0", "2", "-", "2", "9">>,
      <<"2", "0", "2", "4", "-", "1", "3", "-", "0", "1">>,
      <<"2", "0", "2", "4", "-", "6", "-", "5">>,
      <<"0", "1", "-", "0", "1", "-", "2", "0", "2", "4">>,
      <<"2", "0", "2", "4", "/", "0", "1", "/", "0", "1">>,
      <<"a", "b">>,
      <<>> }

\* what they hold after the first space: nothing, a name, a name with
\* spaces in it, before it and after it
RestTexts ==
    { <<>>,
      <<"a">>,
      <<"a", "b">>,
      <<"a", " ", "b">>,
      <<" ", "a">>,
      <<"a", " ">> }

\* the names extract_prefix_date is called on: with no space, and with one
FolderNames ==
    DateTexts \cup {d \o <<" ">> \o r : d \in DateTexts, r \in RestTexts}

Returned(x) == [tag |-> "Returned", val |-> x]

\* main is not running; a name is about to be given to extract_prefix_date
InitExtract ==
    /\ arg \in FolderNames
    /\ ret = Pending
    /\ base_exists = FALSE
    /\ fs = EmptyDisk
    /\ apply_date_prefix = None
    /\ ext = 0
    /\ raw_mode = FALSE
    /\ alt_screen = FALSE
    /\ cursor_hidden = FALSE
    /\ pc = "start"
    /\ app = AppNew(<<>>, EmptyDisk, {})
    /\ last_event = "None"
    /\ loaded = <<>>
    /\ load_env = NotLoaded
    /\ res = None
    /\ new_name = None
    /\ stdout = <<>>
    /\ exit_status = "running"
    /\ fs0 = fs
    /\ base0 = base_exists
    /\ created = {}

\* the call returns
CallExtractPrefixDate ==
    /\ ret = Pending
    /\ ret' = Returned(extract_prefix_date(arg))
    /\ UNCHANGED <<disk_vars, term_vars, hist_vars, arg, ext, pc, app,
                   last_event, loaded, load_env, res, new_name, stdout,
                   exit_status>>

NextExtract == CallExtractPrefixDate

SpecExtract == InitExtract /\ [][NextExtract]_vars

(* ------------------------------------------------------------------------ *)
(* matching_folders called on its own                                       *)
(* ------------------------------------------------------------------------ *)

\* everything main reads and writes
main_vars == <<disk_vars, term_vars, hist_vars, ext, pc, app, last_event,
               loaded, load_env, res, new_name, stdout, exit_status>>

\* main is not running
MainAtRest ==
    /\ base_exists = FALSE
    /\ fs = EmptyDisk
    /\ apply_date_prefix = None
    /\ ext = 0
    /\ raw_mode = FALSE
    /\ alt_screen = FALSE
    /\ cursor_hidden = FALSE
    /\ pc = "start"
    /\ app = AppNew(<<>>, EmptyDisk, {})
    /\ last_event = "None"
    /\ loaded = <<>>
    /\ load_env = NotLoaded
    /\ res = None
    /\ new_name = None
    /\ stdout = <<>>
    /\ exit_status = "running"
    /\ fs0 = fs
    /\ base0 = base_exists
    /\ created = {}

\* the names asked for
WantedNames == { <<"a", "b">>, <<"b", "a", "b">> }

\* the children the directory given to matching_folders may hold: the
\* plain name, the name behind two dates, another name behind a date
ChildNames ==
    { <<"a", "b">>,
      OldDate \o <<" ", "a", "b">>,
      Today \o <<" ", "a", "b">>,
      Today \o <<" ", "b", "a", "b">> }

\* the directories given to matching_folders: each child a directory, a
\* plain file or absent
ChildTrees ==
    UNION { { [n \in D |-> [kind |-> k[n], modified |-> 1, marker |-> FALSE]] :
              k \in [D -> {"dir", "file"}] } :
            D \in SUBSET ChildNames }

\* the loop of matching_folders over what read_dir yields: the names, in
\* the order of the listing, of the children whose metadata can be read
\* and say directory and that match
RECURSIVE matching_folders_read(_, _, _, _)
matching_folders_read(name, listing, disk, unreadable) ==
    IF listing = <<>> THEN <<>>
    ELSE LET filename == listing[1]
             tail     == matching_folders_read(name, SubSeq(listing, 2, Len(listing)),
                                               disk, unreadable)
         IN  IF /\ filename \notin unreadable
                /\ disk[filename].kind = "dir"
                /\ folder_matches(filename, name)
             THEN <<filename>> \o tail
             ELSE tail

\* a name and a path are about to be given to matching_folders: the path
\* may not exist, may not be listable, and the metadata of one of its
\* children may be unreadable
InitMatching ==
    /\ MainAtRest
    /\ \E name \in WantedNames, exists \in BOOLEAN, listable \in BOOLEAN :
       \E disk \in (IF exists THEN ChildTrees ELSE {EmptyDisk}) :
       \E unreadable \in {U \in SUBSET DOMAIN disk : Cardinality(U) <= 1} :
           arg = [name |-> name, exists |-> exists, listable |-> listable,
                  disk |-> disk, unreadable |-> unreadable]
    /\ ret = Pending

\* the call returns: read_dir fails on a path that does not exist or cannot
\* be listed, and yields the children in any order otherwise
CallMatchingFolders ==
    /\ ret = Pending
    /\ \E listing \in (IF arg.exists /\ arg.listable
                       THEN Listings(DOMAIN arg.disk) ELSE {<<>>}) :
           ret' = Returned(matching_folders_read(arg.name, listing, arg.disk,
                                                 arg.unreadable))
    /\ UNCHANGED <<main_vars, arg>>

NextMatching == CallMatchingFolders

SpecMatching == InitMatching /\ [][NextMatching]_vars

(* ------------------------------------------------------------------------ *)
(* config.rs: load_configuration called on its own                          *)
(* ------------------------------------------------------------------------ *)

\* dirs::home_dir()
HomeDir == <<"/", "h">>

\* Path::join of a relative path
join(path, rel) == path \o <<"/">> \o rel

\* home_dir().join("work").join("tries")
default_path == join(join(HomeDir, <<"w", "o", "r", "k">>), <<"t", "r", "i", "e", "s">>)

\* utils::expand_path: a leading "~/" stands for the home directory
expand_path(path_str) ==
    IF starts_with(path_str, <<"~", "/">>)
    THEN join(HomeDir, SubSeq(path_str, 3, Len(path_str)))
    ELSE path_str

\* the values TRY_PATH may have when it is set: empty, a path
TryPaths == { <<>>, <<"/", "e">> }

\* the tries_path values of a config file: absolute, under the home
ConfigPaths == { <<"/", "c">>, <<"~", "/", "c">> }

\* what the environment and the config file give an editor as
EditorNames == { <<"v", "i">> }

Optional(S) == {None} \cup {Some(x) : x \in S}

\* the Config values a config file can parse to (theme and colors, which
\* do not bear on the paths, are left out)
Configs ==
    [tries_path : Optional(ConfigPaths),
     editor : Optional(EditorNames),
     apply_date_prefix : Optional(BOOLEAN),
     transparent_background : Optional(BOOLEAN)]

\* what load_configuration can find where the config file is looked for: no
\* file, a file that is no Config, a file that parses to a Config
ConfigFiles ==
    {[tag |-> "Missing"], [tag |-> "Unparsable"]}
        \cup {[tag |-> "Config", val |-> c] : c \in Configs}

\* load_file_config_toml_if_exists: None when no candidate path exists, the
\* file cannot be read or its text is no Config
load_file_config_toml_if_exists(file) ==
    IF file.tag = "Config" THEN Some(file.val) ELSE None

\* a loader in which the tries_path of the config file wins
load_configuration_config_first(try_path, visual, file) ==
    LET loaded_config == load_file_config_toml_if_exists(file)
        from_env  == IF try_path # None THEN try_path.val ELSE default_path
        config    == loaded_config.val
    IN  [tries_dir |->
             IF loaded_config # None /\ config.tries_path # None
             THEN expand_path(config.tries_path.val)
             ELSE from_env,
         editor_cmd |->
             IF loaded_config # None /\ config.editor # None
             THEN config.editor ELSE visual,
         is_first_run |-> loaded_config = None,
         apply_date_prefix |->
             IF loaded_config # None THEN config.apply_date_prefix ELSE None,
         transparent_background |->
             IF loaded_config # None THEN config.transparent_background ELSE None]

\* load_configuration, given TRY_PATH, the editor of VISUAL or EDITOR and
\* the config file
load_configuration(try_path, visual, file) ==
    LET loaded_config      == load_file_config_toml_if_exists(file)
        try_path_specified == try_path # None
        from_env  == IF try_path # None THEN try_path.val ELSE default_path
        config    == loaded_config.val
    IN  [tries_dir |->
             IF /\ loaded_config # None
                /\ config.tries_path # None
                /\ ~try_path_specified
             THEN expand_path(config.tries_path.val)
             ELSE from_env,
         editor_cmd |->
             IF loaded_config # None /\ config.editor # None
             THEN config.editor ELSE visual,
         is_first_run |-> loaded_config = None,
         apply_date_prefix |->
             IF loaded_config # None THEN config.apply_date_prefix ELSE None,
         transparent_background |->
             IF loaded_config # None THEN config.transparent_background ELSE None]

\* the environment and the config file load_configuration is about to read
InitLoadConfig ==
    /\ MainAtRest
    /\ \E try_path \in Optional(TryPaths), visual \in Optional(EditorNames),
          file \in ConfigFiles :
           arg = [try_path |-> try_path, visual |-> visual, file |-> file]
    /\ ret = Pending

\* the call returns
CallLoadConfiguration ==
    /\ ret = Pending
    /\ ret' = Returned(load_configuration(arg.try_path, arg.visual, arg.file))
    /\ UNCHANGED <<main_vars, arg>>

NextLoadConfig == CallLoadConfiguration

SpecLoadConfig == InitLoadConfig /\ [][NextLoadConfig]_vars

(* ------------------------------------------------------------------------ *)
(* config.rs: save_config called on its own, and the written file parsed    *)
(* ------------------------------------------------------------------------ *)

\* a byte of a path that is no valid Unicode, and the character
\* to_string_lossy puts in its place
InvalidByte == "0xFF"
ReplacementCharacter == "U+FFFD"

\* Path::to_string_lossy
RECURSIVE to_string_lossy(_)
to_string_lossy(path) ==
    IF path = <<>> THEN <<>>
    ELSE <<IF path[1] = InvalidByte THEN ReplacementCharacter ELSE path[1]>>
             \o to_string_lossy(SubSeq(path, 2, Len(path)))

\* The TOML text of a string, as toml::to_string writes it, is modelled by
\* the basic string of the format: the characters between quotes, a quote
\* and a backslash each behind a backslash.  (The toml crate is not part of
\* the repository.)
RECURSIVE toml_escape(_)
toml_escape(s) ==
    IF s = <<>> THEN <<>>
    ELSE (IF s[1] \in {"\"", "\\"} THEN <<"\\", s[1]>> ELSE <<s[1]>>)
             \o toml_escape(SubSeq(s, 2, Len(s)))

toml_string(s) == <<"\"">> \o toml_escape(s) \o <<"\"">>

toml_bool(b) == IF b THEN <<"t", "r", "u", "e">> ELSE <<"f", "a", "l", "s", "e">>

\* the characters of a basic string from position i up to its closing
\* quote, None when the text ends before it or goes on after it
RECURSIVE toml_unescape(_, _)
toml_unescape(text, i) ==
    IF i > Len(text) THEN None
    ELSE IF text[i] = "\"" THEN (IF i = Len(text) THEN Some(<<>>) ELSE None)
    ELSE IF text[i] = "\\"
         THEN IF i + 1 > Len(text) \/ text[i + 1] \notin {"\"", "\\"} THEN None
              ELSE LET rest == toml_unescape(text, i + 2)
                   IN  IF rest = None THEN None
                       ELSE Some(<<text[i + 1]>> \o rest.val)
    ELSE LET rest == toml_unescape(text, i + 1)
         IN  IF rest = None THEN None ELSE Some(<<text[i]>> \o rest.val)

\* a TOML value read as a string, None when it is none
toml_parse_string(text) ==
    IF text = <<>> \/ text[1] # "\"" THEN None ELSE toml_unescape(text, 2)

\* a TOML value read as a boolean, None when it is none
toml_parse_bool(text) ==
    IF text = toml_bool(TRUE) THEN Some(TRUE)
    ELSE IF text = toml_bool(FALSE) THEN Some(FALSE)
    ELSE None

\* toml::to_string(&config): a line `key = value` for each field that is
\* Some, in the order of the struct; a field that is None is left out
toml_to_string(config) ==
    (IF config.tries_path = None THEN <<>>
     ELSE <<[key |-> "tries_path", value |-> toml_string(config.tries_path.val)]>>)
    \o (IF config.theme = None THEN <<>>
        ELSE <<[key |-> "theme", value |-> toml_string(config.theme.val)]>>)
    \o (IF config.editor = None THEN <<>>
        ELSE <<[key |-> "editor", value |-> toml_string(config.editor.val)]>>)
    \o (IF config.apply_date_prefix = None THEN <<>>
        ELSE <<[key |-> "apply_date_prefix",
                value |-> toml_bool(config.apply_date_prefix.val)]>>)
    \o (IF config.transparent_background = None THEN <<>>
        ELSE <<[key |-> "transparent_background",
                value |-> toml_bool(config.transparent_background.val)]>>)

\* the value of a key in a TOML text, None when the key is not there
toml_get(lines, key) ==
    IF \E i \in 1..Len(lines) : lines[i].key = key
    THEN Some(lines[CHOOSE i \in 1..Len(lines) : lines[i].key = key].value)
    ELSE None

\* toml::from_str::<Config>: None when a value has not the type of its
\* field, else the Config, a field without a line being None
toml_from_str(lines) ==
    LET str(key)  == IF toml_get(lines, key) = None THEN Some(None)
                     ELSE LET v == toml_parse_string(toml_get(lines, key).val)
                          IN  IF v = None THEN None ELSE Some(v)
        bool(key) == IF toml_get(lines, key) = None THEN Some(None)
                     ELSE LET v == toml_parse_bool(toml_get(lines, key).val)
                          IN  IF v = None THEN None ELSE Some(v)
    IN  IF \/ str("tries_path") = None \/ str("theme") = None
           \/ str("editor") = None
           \/ bool("apply_date_prefix") = None
           \/ bool("transparent_background") = None
        THEN None
        ELSE Some([tries_path |-> str("tries_path").val,
                   theme |-> str("theme").val,
                   colors |-> None,
                   editor |-> str("editor").val,
                   apply_date_prefix |-> bool("apply_date_prefix").val,
                   transparent_background |-> bool("transparent_background").val])

\* the Config save_config builds from its arguments
saved_config(theme_name, tries_path, editor, apply_prefix, transparent) ==
    [tries_path |-> Some(to_string_lossy(tries_path)),
     theme |-> Some(theme_name),
     colors |-> None,
     editor |-> editor,
     apply_date_prefix |-> apply_prefix,
     transparent_background |-> transparent]

\* the names of the themes given to save_config
ThemeNames == { <<"D">>, <<"T", " ", "N">> }

\* the tries paths given to it: plain, with a quote, with a backslash, with
\* a byte that is no Unicode
SavedPaths ==
    { <<"/", "t">>, <<"/", "\"">>, <<"/", "\\", "t">>, <<"/", InvalidByte>> }

\* the editors given to it
SavedEditors == { <<"v", "i">>, <<"\"", "\\">> }

\* the arguments of a save_config, whether the directory of the config path
\* exists, and whether the system lets the directory be made, the file be
\* created and the text be written
InitSaveConfig ==
    /\ MainAtRest
    /\ \E theme \in ThemeNames, tries_path \in SavedPaths,
          editor \in Optional(SavedEditors),
          apply \in Optional(BOOLEAN), transparent \in Optional(BOOLEAN),
          parent_exists \in BOOLEAN, mkdir_ok \in BOOLEAN,
          create_ok \in BOOLEAN, write_ok \in BOOLEAN :
           arg = [theme |-> theme, tries_path |-> tries_path, editor |-> editor,
                  apply_date_prefix |-> apply,
                  transparent_background |-> transparent,
                  parent_exists |-> parent_exists, mkdir_ok |-> mkdir_ok,
                  create_ok |-> create_ok, write_ok |-> write_ok]
    /\ ret = Pending

\* save_config: the directory of the path is made when it is missing, the
\* file is created and the text written, each step returning its error
\* through `?`; a file created and not written is empty
CallSaveConfig ==
    /\ ret = Pending
    /\ LET toml_string_ == toml_to_string(saved_config(arg.theme, arg.tries_path,
                               arg.editor, arg.apply_date_prefix,
                               arg.transparent_background))
           parent == arg.parent_exists \/ arg.mkdir_ok
       IN  ret' = IF ~parent
                  THEN [tag |-> "Err", parent_exists |-> FALSE, file |-> None]
                  ELSE IF ~arg.create_ok
                  THEN [tag |-> "Err", parent_exists |-> TRUE, file |-> None]
                  ELSE IF ~arg.write_ok
                  THEN [tag |-> "Err", parent_exists |-> TRUE, file |-> Some(<<>>)]
                  ELSE [tag |-> "Ok", parent_exists |-> TRUE,
                        file |-> Some(toml_string_)]
    /\ UNCHANGED <<main_vars, arg>>

\* the written file is read and parsed: toml::from_str of its contents
ParseSavedConfig ==
    /\ ret # Pending
    /\ ret.tag = "Ok"
    /\ ret' = [tag |-> "Parsed", parent_exists |-> ret.parent_exists,
               file |-> ret.file, loaded |-> toml_from_str(ret.file.val)]
    /\ UNCHANGED <<main_vars, arg>>

NextSaveConfig == CallSaveConfig \/ ParseSavedConfig

SpecSaveConfig == InitSaveConfig /\ [][NextSaveConfig]_vars

(* ------------------------------------------------------------------------ *)
(* run_app with a user who ends the session and a terminal that works       *)
(* ------------------------------------------------------------------------ *)

\* main up to the return of run_app, no draw, poll or read of the loop
\* failing
NextRunApp ==
    \/ MainCreateBase
    \/ MainEnableRawMode
    \/ MainEnterAlternateScreen
    \/ MainTerminalNew
    \/ MainAppNew
    \/ LoopPollTimeout
    \/ LoopNonKeyEvent
    \/ \E c \in QueryChars : KeyChar(c)
    \/ KeyBackspace
    \/ KeyUp
    \/ KeyDown
    \/ KeyEnter
    \/ KeyEsc
    \/ KeyOther

\* an Enter or an Esc is delivered in the end: the loop polls again every
\* 50 ms for as long as it runs, so a key the user presses is read
UserEndsSession == WF_vars(KeyEnter \/ KeyEsc)

SpecRunApp == Init /\ [][NextRunApp]_vars /\ UserEndsSession

(* ------------------------------------------------------------------------ *)
(* shell.rs: append_source_to_rc called again and again                     *)
(* ------------------------------------------------------------------------ *)

\* how many calls are followed
MaxCalls == 3

\* a test that looks for the pattern at the start of the text alone
contains_at_start(text, pattern) == starts_with(text, pattern)

\* str::contains: the pattern occurs somewhere in the text
contains(text, pattern) ==
    \E i \in 1..(Len(text) + 1) :
        /\ i + Len(pattern) - 1 <= Len(text)
        /\ SubSeq(text, i, i + Len(pattern) - 1) = pattern

\* writeln!(file, "\n# try-rs integration")
IntegrationHeader == <<"\n">> \o <<"#", " ", "t", "r", "y", "-", "r", "s", " ", "i", "n", "t", "e", "g", "r", "a", "t", "i", "o", "n">> \o <<"\n">>

\* writeln!(file, "{}", source_cmd)
CommandLine(source_cmd) == source_cmd \o <<"\n">>

\* the source commands given, written short
SourceCommands == { <<"s">>, <<"s", "s">> }

\* what an RC file may hold before the first call: nothing, text without
\* the command, text with it, with and without a newline at the end
RcContents ==
    { <<>>, <<"x">>, <<"x", "\n">>, <<"s">>, <<"s", "\n">>, <<"x", "s">>,
      <<"s", "s", "\n">>, <<"#", "s", "\n">> }

\* the steps of a call that can fail
RcSteps == {"read", "open", "header", "command"}

\* a source command, and an RC file that exists with some text or is
\* missing; no call has been made
InitAppendRc ==
    /\ MainAtRest
    /\ \E source_cmd \in SourceCommands, rc \in Optional(RcContents) :
           arg = [source_cmd |-> source_cmd, rc0 |-> rc]
    /\ ret = [tag |-> "Calls", n |-> 0, rc |-> arg.rc0, ok |-> TRUE,
              after_first |-> arg.rc0]

\* the RC file after a call on the file `rc` in which the steps of `failed`
\* fail, and whether the call returns Ok
append_source_to_rc(rc, source_cmd, failed) ==
    IF rc = None THEN [rc |-> rc, ok |-> TRUE]
    ELSE IF "read" \in failed THEN [rc |-> rc, ok |-> FALSE]
    ELSE IF contains(rc.val, source_cmd) THEN [rc |-> rc, ok |-> TRUE]
    ELSE IF "open" \in failed \/ "header" \in failed THEN [rc |-> rc, ok |-> FALSE]
    ELSE IF "command" \in failed
         THEN [rc |-> Some(rc.val \o IntegrationHeader), ok |-> FALSE]
    ELSE [rc |-> Some(rc.val \o IntegrationHeader \o CommandLine(source_cmd)),
          ok |-> TRUE]

\* one more call with the same command on the same path
CallAppendSourceToRc ==
    /\ ret.tag = "Calls"
    /\ ret.n < MaxCalls
    /\ \E failed \in {{}} \cup {{s} : s \in RcSteps} :
        LET out == append_source_to_rc(ret.rc, arg.source_cmd, failed)
        IN  ret' = [tag |-> "Calls", n |-> ret.n + 1, rc |-> out.rc,
                    ok |-> ret.ok /\ out.ok,
                    after_first |-> IF ret.n = 0 THEN out.rc ELSE ret.after_first]
    /\ UNCHANGED <<main_vars, arg>>

NextAppendRc == CallAppendSourceToRc

SpecAppendRc == InitAppendRc /\ [][NextAppendRc]_vars

(* ------------------------------------------------------------------------ *)
(* Properties                                                               *)
(* ------------------------------------------------------------------------ *)

\* the App has been built: the loop has started, or is over
AppBuilt == pc \notin {"start", "raw", "alt", "term", "app"}

\* the names of a sequence of entries
Names(entries) == {entries[i].name : i \in 1..Len(entries)}

\* C1: in every state of the selection loop the cursor is below the length
\* of a non-empty filtered list and is 0 on an empty one, and it is 0 right
\* after every update_search (a character or a backspace, also a backspace
\* on an empty query).
C1_CursorInRange ==
    AppBuilt =>
        /\ app.filtered_entries # <<>> =>
               app.selected_index < Len(app.filtered_entries)
        /\ app.filtered_entries = <<>> => app.selected_index = 0
        /\ app.selected_index >= 0
        /\ last_event \in {"Char", "Backspace"} => app.selected_index = 0

\* a backspace has emptied the query and the cursor is at the top of a list
\* in which it can move
C1_Witness ==
    /\ pc = "loop"
    /\ last_event = "Backspace"
    /\ app.query = <<>>
    /\ Len(app.filtered_entries) >= 2
    /\ app.selected_index = 0

\* C2: in every state the filtered list is, by name, a subset of
\* all_entries and is the filter of the entries first loaded on the current
\* query alone, and all_entries is what was loaded.
C2_FilteredDerived ==
    AppBuilt =>
        /\ app.all_entries = loaded
        /\ Names(app.filtered_entries) \subseteq Names(app.all_entries)
        /\ app.query = <<>> => app.filtered_entries = loaded
        /\ app.query # <<>> =>
               app.filtered_entries =
                   sort_by_desc(filter_map(loaded, app.query), "score")

\* a backspace has widened the list again: more entries match the shorter
\* query than matched the longer one typed before
C2_Witness ==
    /\ pc = "loop"
    /\ last_event = "Backspace"
    /\ Len(app.query) = 1
    /\ Len(app.filtered_entries) = 2
    /\ \E c \in QueryChars :
           Len(filter_map(loaded, Append(app.query, c))) = 1

\* C3: an Esc in any state of the loop ends it with no outcome, and the
\* process creates no folder under the base directory afterwards.
C3_AbortGivesNone ==
    last_event = "Esc" =>
        /\ app.should_quit
        /\ app.final_selection = None
        /\ res = Some([tag |-> "Ok", val |-> None])
        /\ new_name = None
        /\ created = {}

\* main has ended after an Esc pressed with a query typed, entries listed
\* and the cursor moved
C3_Witness ==
    /\ pc = "exit"
    /\ exit_status = "Ok"
    /\ last_event = "Esc"
    /\ app.query # <<>>
    /\ app.filtered_entries # <<>>
    /\ app.selected_index > 0

C5_ConfirmOutcome ==
    last_event = "Enter" =>
        /\ exit_status # "Panic"
        /\ app.should_quit
        /\ app.final_selection =
               IF app.filtered_entries # <<>>
               THEN Some(app.filtered_entries[app.selected_index + 1].name)
               ELSE IF app.query # <<>> THEN Some(app.query)
               ELSE None
        /\ res = Some([tag |-> "Ok", val |-> app.final_selection])

\* Enter was pressed with a query typed and the cursor moved down a
\* filtered list
C5_Witness ==
    /\ last_event = "Enter"
    /\ app.should_quit
    /\ app.query # <<>>
    /\ app.selected_index > 0
    /\ Len(app.filtered_entries) >= 2

\* C6 as claimed: whenever main has ended, the terminal is in normal mode:
\* raw mode off, alternate screen left, cursor shown.  (It is in normal
\* mode anyway when main ended before raw mode was enabled.)
C6_TerminalRestored ==
    pc = "exit" => (~raw_mode /\ ~alt_screen /\ ~cursor_hidden)

\* the selection main resolves, when there is one
TheSelection == res.val.val.val

\* main takes its step of resolving a selection
Resolving == pc = "resolve" /\ Selected(res) /\ pc' # "resolve"

\* main takes its step of creating the new folder, and it succeeds
Creating == pc = "create" /\ pc' = "exit" /\ exit_status' = "Ok"

\* C7: when a directory named exactly as the selection exists, resolving
\* prints the cd to that directory and ends main, and the base directory is
\* as before: nothing is created and the directory keeps what it holds.
C7_ExistingFolder ==
    [][(Resolving /\ TheSelection \in Dirs(fs)) =>
           /\ pc' = "exit"
           /\ exit_status' = "Ok"
           /\ stdout' = Append(stdout, cd(TheSelection))
           /\ fs' = fs
           /\ created' = created
           /\ base_exists' = base_exists]_vars

\* main has printed the cd to a selected folder that exists and still holds
\* its marker, a dated folder of the same name lying beside it
C7_Witness ==
    /\ pc = "exit"
    /\ exit_status = "Ok"
    /\ Selected(res)
    /\ stdout = <<cd(TheSelection)>>
    /\ TheSelection \in Dirs(fs)
    /\ fs[TheSelection].marker
    /\ created = {}
    /\ matching_folders(TheSelection, fs) \ {TheSelection} # {}

\* C8 as claimed: when no directory is named as the selection and some
\* directory is named '<date> <selection>', resolving prints the cd to such
\* a dated directory and creates nothing.
C8_DatedFolder ==
    [][(/\ Resolving
        /\ TheSelection \notin Dirs(fs)
        /\ matching_folders(TheSelection, fs) # {}) =>
           /\ pc' = "exit"
           /\ exit_status' = "Ok"
           /\ \E d \in matching_folders(TheSelection, fs) :
                  stdout' = Append(stdout, cd(d))
           /\ fs' = fs
           /\ created' = created]_vars

\* C9 as claimed: when no folder matches the selection, literally or
\* behind a date, and the date-prefix option is on, the folder created and
\* printed is '<today> <selection>'.  (A selection that already starts with
\* today's date is set aside.)
C9_NewDatedName ==
    [][(/\ Creating
        /\ apply_date_prefix = Some(TRUE)
        /\ matching_folders(TheSelection, fs) = {}
        /\ ~starts_with(TheSelection, Today)) =>
           /\ stdout' = Append(stdout, cd(Today \o <<" ">> \o TheSelection))
           /\ (Today \o <<" ">> \o TheSelection) \in Dirs(fs')]_vars

\* C10 as claimed: when no folder matches the selection, literally or
\* behind a date, and the date-prefix option is off or not set, the folder
\* created and printed has exactly the name selected.
C10_NewPlainName ==
    [][(/\ Creating
        /\ apply_date_prefix \in {None, Some(FALSE)}
        /\ matching_folders(TheSelection, fs) = {}) =>
           /\ stdout' = Append(stdout, cd(TheSelection))
           /\ TheSelection \in Dirs(fs')]_vars

\* C11: a selection that does not exist and already begins with today's date
\* becomes the new folder name as it is, and every name main creates is a
\* fixed point of the naming: resolving it again the same day gives the same
\* name, never one with the date twice.
C11_DatePrefixIdempotent ==
    [][/\ (Resolving /\ ~Exists(fs, TheSelection)
                     /\ starts_with(TheSelection, generate_prefix_date))
            => new_name' = Some(TheSelection)
       /\ Creating =>
            /\ NewName(new_name.val) = new_name.val
            /\ ~starts_with(new_name.val,
                            format_dated(generate_prefix_date,
                                         generate_prefix_date))]_vars

\* main has created and printed a folder named exactly as a selection that
\* began with today's date
C11_Witness ==
    /\ pc = "exit"
    /\ exit_status = "Ok"
    /\ Selected(res)
    /\ starts_with(TheSelection, generate_prefix_date)
    /\ new_name = Some(TheSelection)
    /\ TheSelection \in created
    /\ stdout = <<cd(TheSelection)>>

\* C12: extract_prefix_date gives a decomposition exactly when the name has
\* a space, the text before the first space is a date of the calendar
\* written as four digits, two digits and two digits with '-' between, and
\* the text after the first space is not empty; the rest it gives is then
\* all the text after the first space.
C12_ExtractPrefixDate ==
    ret # Pending =>
        LET i   == find_from(arg, " ", 1)
            lhs == SubSeq(arg, 1, i - 1)
            rhs == SubSeq(arg, i + 1, Len(arg))
            y   == number_value(lhs, 1, 4, 0)
            m   == number_value(lhs, 6, 2, 0)
            d   == number_value(lhs, 9, 2, 0)
            IsDate ==
                /\ Len(lhs) = 10
                /\ \A k \in {1, 2, 3, 4, 6, 7, 9, 10} : lhs[k] \in Digits
                /\ lhs[5] = "-" /\ lhs[8] = "-"
                /\ m \in 1..12
                /\ d \in 1..DaysInMonth(y, m)
        IN  /\ ret.val # None <=> (i # 0 /\ IsDate /\ rhs # <<>>)
            /\ ret.val # None => ret.val.val[2] = rhs

\* C13: whenever the loop waits with an empty query, whatever was typed and
\* deleted before, the filtered list is all_entries itself, entry for entry and in the order
\* in which the entries were loaded, the latest modified first.
C13_EmptyQueryRestores ==
    (pc = "loop" /\ app.query = <<>>) =>
        /\ app.filtered_entries = app.all_entries
        /\ Len(app.filtered_entries) = Len(loaded)
        /\ \A i \in 1..Len(loaded) : app.filtered_entries[i] = loaded[i]
        /\ \A i, j \in 1..Len(app.filtered_entries) :
               i < j => app.filtered_entries[i].modified
                            >= app.filtered_entries[j].modified

\* the last character of a query has been deleted and the list shows the
\* two loaded entries again, the later modified one first
C13_Witness ==
    /\ pc = "loop"
    /\ last_event = "Backspace"
    /\ app.query = <<>>
    /\ Len(loaded) = 2
    /\ Len(app.filtered_entries) = 2
    /\ app.filtered_entries[1].modified > app.filtered_entries[2].modified

\* C14: in the loop, for a non-empty query, the filtered list holds exactly the entries
\* of all_entries whose name the scorer matches against the query: no entry
\* without a match, every entry with one, each once.
C14_ExactlyTheMatches ==
    (pc = "loop" /\ app.query # <<>>) =>
        LET matching == {i \in 1..Len(app.all_entries) :
                            fuzzy_match(app.all_entries[i].name, app.query) # None}
        IN  /\ \A k \in 1..Len(app.filtered_entries) :
                   \E i \in matching :
                       app.filtered_entries[k].name = app.all_entries[i].name
            /\ \A i \in matching :
                   Cardinality({k \in 1..Len(app.filtered_entries) :
                       app.filtered_entries[k].name = app.all_entries[i].name}) = 1
            /\ Len(app.filtered_entries) = Cardinality(matching)

\* a query is typed that one of the two loaded entries matches and the
\* other does not, and the list shows the one
C14_Witness ==
    /\ pc = "loop"
    /\ last_event = "Char"
    /\ app.query # <<>>
    /\ Len(app.all_entries) = 2
    /\ Len(app.filtered_entries) = 1
    /\ \E i \in 1..2 : fuzzy_match(app.all_entries[i].name, app.query) = None

\* C15: in the loop, for a non-empty query, the filtered list is in the order of
\* non-increasing score, each entry of it carries the score the scorer
\* gives its name for the current query, and entries of equal score are in
\* the order they have in all_entries.
C15_OrderedByScore ==
    (pc = "loop" /\ app.query # <<>>) =>
        LET f      == app.filtered_entries
            pos(n) == CHOOSE i \in 1..Len(app.all_entries) :
                          app.all_entries[i].name = n
        IN  /\ \A k \in 1..Len(f) :
                   fuzzy_match(f[k].name, app.query) = Some(f[k].score)
            /\ \A i, j \in 1..Len(f) : i < j => f[i].score >= f[j].score
            /\ \A i, j \in 1..Len(f) :
                   (i < j /\ f[i].score = f[j].score) =>
                       pos(f[i].name) < pos(f[j].name)

\* the query has brought the second loaded entry above the first, its score
\* being the higher one
C15_Witness ==
    /\ pc = "loop"
    /\ app.query # <<>>
    /\ Len(app.filtered_entries) = 2
    /\ app.filtered_entries[1].score > app.filtered_entries[2].score
    /\ app.filtered_entries[1].name = app.all_entries[2].name

\* C16: filtering is idempotent in every state of the loop: running update_search again with the query
\* unchanged leaves the filtered list as it is, and filtering the filtered
\* list by the same query gives the filtered list again, the same entries
\* in the same order with the same scores.
C16_FilterIdempotent ==
    pc = "loop" =>
        /\ update_search(app).filtered_entries = app.filtered_entries
        /\ update_search([app EXCEPT !.all_entries = app.filtered_entries])
               .filtered_entries = app.filtered_entries

\* a query is typed that gives two entries the same score above zero, so
\* that filtering them again has scores to set and a tie to keep
C16_Witness ==
    /\ pc = "loop"
    /\ app.query # <<>>
    /\ Len(app.filtered_entries) = 2
    /\ app.filtered_entries[1].score = app.filtered_entries[2].score
    /\ app.filtered_entries[1].score > 0
    /\ app.filtered_entries # app.all_entries

\* C17: when the base directory can be listed, App::new loads exactly its
\* children that are directories and whose metadata can be read, each once
\* with its modification time, plain files and unreadable children being
\* left out, and the loaded sequence is in the order of non-increasing
\* modification time.
C17_LoadsDirectories ==
    (AppBuilt /\ load_env.ok) =>
        LET disk == load_env.disk
            kept == Dirs(disk) \ load_env.unreadable
        IN  /\ Names(loaded) = kept
            /\ Len(loaded) = Cardinality(kept)
            /\ \A k \in 1..Len(loaded) :
                   loaded[k].name \in DOMAIN disk
                       => loaded[k].modified = disk[loaded[k].name].modified
            /\ \A i, j \in 1..Len(loaded) :
                   i < j => loaded[i].modified >= loaded[j].modified

\* the base directory held two directories and a plain file, the metadata
\* of one directory could not be read, and the other directory alone is
\* loaded
C17_Witness ==
    /\ pc = "loop"
    /\ load_env.ok
    /\ Cardinality(Dirs(load_env.disk)) = 2
    /\ DOMAIN load_env.disk # Dirs(load_env.disk)
    /\ load_env.unreadable # {}
    /\ load_env.unreadable \subseteq Dirs(load_env.disk)
    /\ Len(loaded) = 1

\* C18: when the base directory cannot be listed, App::new gives an App
\* with no entries and the session goes on: the loop starts, not quitting,
\* with all_entries and filtered_entries empty and main still running, an
\* Enter on a typed name confirms that name and an Esc aborts.
C18_ListingFailureAbsorbed ==
    (load_env.done /\ ~load_env.ok) =>
        /\ loaded = <<>>
        /\ app.all_entries = <<>>
        /\ app.filtered_entries = <<>>
        /\ last_event = "None" =>
               /\ pc = "loop"
               /\ ~app.should_quit
               /\ exit_status = "running"
        /\ pc = "loop" => ~app.should_quit
        /\ (last_event = "Enter" /\ app.query # <<>>) =>
               /\ app.should_quit
               /\ res = Some([tag |-> "Ok", val |-> Some(app.query)])
        /\ last_event = "Esc" =>
               /\ app.should_quit
               /\ res = Some([tag |-> "Ok", val |-> None])

\* the base directory held a directory and could not be listed, and the
\* name typed into the empty list has been confirmed
C18_Witness ==
    /\ load_env.done
    /\ ~load_env.ok
    /\ Dirs(load_env.disk) # {}
    /\ last_event = "Enter"
    /\ app.query # <<>>
    /\ res = Some([tag |-> "Ok", val |-> Some(app.query)])

\* C19: when the directory main is about to create is there already, made
\* by another process or another instance of the program after the
\* existence test, the creation step still succeeds: main ends Ok, prints
\* the cd to that directory, and leaves the one directory of that name as
\* it found it.
C19_CreateRaceTolerant ==
    [][(pc = "create" /\ new_name.val \in Dirs(fs) /\ pc' # "create") =>
           /\ pc' = "exit"
           /\ exit_status' = "Ok"
           /\ stdout' = Append(stdout, cd(new_name.val))
           /\ fs' = fs
           /\ created' = created]_vars

\* another process made the directory between the existence test and the
\* creation, and main has ended Ok with the cd to it printed
C19_Witness ==
    /\ pc = "exit"
    /\ exit_status = "Ok"
    /\ new_name # None
    /\ ext > 0
    /\ new_name.val \in Dirs(fs)
    /\ new_name.val \notin created
    /\ stdout = <<cd(new_name.val)>>

\* C20: a failure that is not absorbed as an empty listing reaches the
\* caller: when a draw, poll or read of the loop has failed, main ends with
\* an error, and whenever main ends with an error no cd has been printed.
C20_FailuresPropagate ==
    pc = "exit" =>
        /\ (res # None /\ res.val.tag = "Err") => exit_status = "Err"
        /\ exit_status = "Err" => stdout = <<>>

\* C21: the session is Active (should_quit false) or Finished (should_quit
\* true), and Finished is final: once should_quit is set the loop is left
\* and the App, its query, filtered list, cursor and outcome, never changes
\* again; final_selection is written only while it is None, only by an
\* Enter, and in the step that sets should_quit; and what run_app has
\* returned stays as it is.
C21_FinishedTerminal ==
    [][/\ app.should_quit => (pc # "loop" /\ app' = app)
       /\ app'.final_selection # app.final_selection =>
              /\ app.final_selection = None
              /\ ~app.should_quit
              /\ app'.should_quit
              /\ last_event' = "Enter"
       /\ res # None => res' = res]_vars

\* an Enter has finished the session with an outcome, and main has gone on
\* to restore the terminal with the App as the Enter left it
C21_Witness ==
    /\ pc = "resolve"
    /\ app.should_quit
    /\ last_event = "Enter"
    /\ app.final_selection # None
    /\ res = Some([tag |-> "Ok", val |-> app.final_selection])

\* C22: should_quit becomes true only in an iteration that receives Enter
\* or Esc; an iteration whose wait times out, or that receives a non-key
\* event or a key the loop does not handle, leaves the loop running with
\* the whole App, query, filtered list, cursor and outcome, as it was.
C22_OnlyConfirmOrAbortLeaves ==
    [][/\ (~app.should_quit /\ app'.should_quit) =>
              last_event' \in {"Enter", "Esc"}
       /\ (pc = "loop" /\ last_event' = "Idle") =>
              /\ app' = app
              /\ ~app'.should_quit
              /\ pc' = "loop"
              /\ res' = res]_vars

\* the loop has idled through an iteration with a query typed and the
\* cursor moved down, and still waits with both in place
C22_Witness ==
    /\ pc = "loop"
    /\ last_event = "Idle"
    /\ app.query # <<>>
    /\ app.selected_index > 0
    /\ ~app.should_quit

\* the names a call of matching_folders has returned, as a set
ReturnedNames == {ret.val[i] : i \in 1..Len(ret.val)}

\* the directories of a tree that are named `name` or are named a date, a
\* space and `name`
MatchingDirs(name, disk, dirs) ==
    {n \in dirs :
        \/ n = name
        \/ /\ extract_prefix_date(n) # None
           /\ extract_prefix_date(n).val[2] = name}

\* C23 as claimed: matching_folders returns exactly the directories under
\* the path that equal the name or decompose into a rest equal to the name,
\* each once, and nothing when the path is empty or does not exist.
C23_MatchingFolders ==
    ret # Pending =>
        LET all == IF arg.exists THEN Dirs(arg.disk) ELSE {}
        IN  /\ ReturnedNames = MatchingDirs(arg.name, arg.disk, all)
            /\ Len(ret.val) = Cardinality(ReturnedNames)

\* C23: matching_folders returns exactly the directories under the path
\* whose metadata can be read and that equal the name or decompose into a
\* rest equal to the name, each once: literal and dated ones together, all
\* the dated ones, no plain file; and it returns nothing when the path does
\* not exist or cannot be listed.
C23_MatchingReadableFolders ==
    ret # Pending =>
        LET all == IF arg.exists /\ arg.listable
                   THEN Dirs(arg.disk) \ arg.unreadable ELSE {}
        IN  /\ ReturnedNames = MatchingDirs(arg.name, arg.disk, all)
            /\ Len(ret.val) = Cardinality(ReturnedNames)
            /\ ~arg.exists => ret.val = <<>>

\* the literal folder and two dated ones are returned together, a folder
\* of another name lying beside them
C23_Witness ==
    /\ ret # Pending
    /\ Len(ret.val) = 3
    /\ arg.name \in ReturnedNames
    /\ Cardinality(Dirs(arg.disk)) = 4

\* the tries_path a config file gives, None when there is no file, no
\* Config in it or no tries_path in the Config
FileTriesPath ==
    IF arg.file.tag = "Config" THEN arg.file.val.tries_path ELSE None

\* C24: TRY_PATH, when set, is the tries_dir whatever the config file says;
\* the tries_path of the config file (a leading "~/" expanded) is the
\* tries_dir when TRY_PATH is unset; the default under the home directory
\* is the tries_dir when there is neither.
C24_TryPathWins ==
    ret # Pending =>
        /\ arg.try_path # None => ret.val.tries_dir = arg.try_path.val
        /\ (arg.try_path = None /\ FileTriesPath # None) =>
               ret.val.tries_dir = expand_path(FileTriesPath.val)
        /\ (arg.try_path = None /\ FileTriesPath = None) =>
               ret.val.tries_dir = default_path

\* TRY_PATH is set, the config file names another tries_path, and the
\* tries_dir is that of TRY_PATH
C24_Witness ==
    /\ ret # Pending
    /\ arg.try_path # None
    /\ FileTriesPath # None
    /\ ret.val.tries_dir = arg.try_path.val
    /\ ret.val.tries_dir # expand_path(FileTriesPath.val)
    /\ ~ret.val.is_first_run

\* C25 as claimed: once save_config has succeeded and the written file is
\* parsed, the loaded Config has the tries path, the theme name, the
\* editor, apply_date_prefix and transparent_background that were saved,
\* None staying None, and the directory of the config path exists.
C25_SaveConfigRoundTrip ==
    (ret # Pending /\ ret.tag = "Parsed") =>
        /\ ret.loaded # None
        /\ ret.loaded.val.tries_path = Some(arg.tries_path)
        /\ ret.loaded.val.theme = Some(arg.theme)
        /\ ret.loaded.val.editor = arg.editor
        /\ ret.loaded.val.apply_date_prefix = arg.apply_date_prefix
        /\ ret.loaded.val.transparent_background = arg.transparent_background
        /\ ret.parent_exists

\* C26: an Up puts the cursor at max(cursor - 1, 0), a Down puts it at
\* min(cursor + 1, len - 1) of the filtered list and leaves it alone on an
\* empty list; both leave the query, all_entries, the filtered list and
\* the outcome as they were and the loop running.
C26_CursorMoves ==
    [][(pc = "loop" /\ last_event' \in {"Up", "Down"}) =>
           LET n   == Len(app.filtered_entries)
               cur == app.selected_index
           IN  /\ last_event' = "Up" =>
                      app'.selected_index = IF cur - 1 > 0 THEN cur - 1 ELSE 0
               /\ (last_event' = "Down" /\ n > 0) =>
                      app'.selected_index = IF cur + 1 < n - 1 THEN cur + 1 ELSE n - 1
               /\ (last_event' = "Down" /\ n = 0) => app'.selected_index = cur
               /\ app' = [app EXCEPT !.selected_index = app'.selected_index]
               /\ ~app'.should_quit
               /\ pc' = "loop"
               /\ res' = res]_vars

\* a Down at the last entry of a list of two has left the cursor there
C26_Witness ==
    /\ pc = "loop"
    /\ last_event = "Down"
    /\ Len(app.filtered_entries) = 2
    /\ app.selected_index = 1
    /\ app.query # <<>>

\* C27: when an Enter ends the loop while at least one entry of
\* all_entries matches the query, the outcome is the name of an entry that
\* was loaded; the typed query is the outcome only when it is not empty and
\* no loaded entry matches it.
C27_QueryOnlyWithoutMatch ==
    [][(pc = "loop" /\ last_event' = "Enter" /\ app'.should_quit) =>
           LET matches == {i \in 1..Len(app.all_entries) :
                              fuzzy_match(app.all_entries[i].name, app.query) # None}
           IN  /\ (app.query # <<>> /\ matches # {}) =>
                      /\ app'.final_selection # None
                      /\ app'.final_selection.val \in Names(loaded)
                      /\ fuzzy_match(app'.final_selection.val, app.query) # None
               /\ (app'.final_selection # None
                       /\ app'.final_selection.val \notin Names(loaded)) =>
                      /\ app'.final_selection = Some(app.query)
                      /\ app.query # <<>>
                      /\ matches = {}]_vars

\* the query typed is not the name of a loaded entry and matches one, and
\* the Enter has given the name of that entry
C27_Witness ==
    /\ last_event = "Enter"
    /\ app.should_quit
    /\ app.query # <<>>
    /\ app.query \notin Names(loaded)
    /\ app.final_selection # None
    /\ app.final_selection.val \in Names(loaded)
    /\ app.final_selection.val # app.query

\* C28: when an Enter or an Esc is delivered in the end and no draw, poll
\* or read fails, a loop that has started ends: run_app returns, and what
\* it returns is Ok with the outcome the Enter or the Esc that ended the
\* loop has fixed, None for an Esc.
C28_RunAppTerminates ==
    (pc = "loop") ~>
        (/\ pc = "disable_raw"
         /\ app.should_quit
         /\ last_event \in {"Enter", "Esc"}
         /\ res = Some([tag |-> "Ok", val |-> app.final_selection])
         /\ last_event = "Esc" => app.final_selection = None)

\* run_app has returned the entry an Enter confirmed after a query was
\* typed
C28_Witness ==
    /\ pc = "disable_raw"
    /\ last_event = "Enter"
    /\ app.query # <<>>
    /\ app.final_selection # None
    /\ res = Some([tag |-> "Ok", val |-> app.final_selection])

\* how often the pattern occurs in the text
Occurrences(text, pattern) ==
    Cardinality({ i \in 1..Len(text) :
                    /\ i + Len(pattern) - 1 <= Len(text)
                    /\ SubSeq(text, i, i + Len(pattern) - 1) = pattern })

\* what the first call added to the end of the RC file
AppendedByFirstCall ==
    SubSeq(ret.after_first.val, Len(arg.rc0.val) + 1, Len(ret.after_first.val))

====
